---------------------------- MODULE Spec2Model ----------------------------
(*************************************************************************)
(* Two-level doubly-linked list tour (src/tour/twoleveltree.rs).         *)
(*                                                                       *)
(* A TwoLevelTree owns one TltVertex per node of the container and       *)
(* floor(n / max_groupsize) + 1 ParentVertex segments.  Weak references  *)
(* are modelled as indices into the owning vectors, with None standing   *)
(* for Weak::new().  The owning vectors are never shrunk, so a weak      *)
(* reference upgrades exactly when it is not None.                       *)
(*************************************************************************)
EXTENDS Integers, Sequences, FiniteSets, TLC

VARIABLES
    container,   \* number of nodes of the borrowed Container
    vertices,    \* Vec<RcVertex>, indexed 0 .. n-1
    parents,     \* Vec<RcParent>, indexed 0 .. p_len-1
    total_dist,  \* cached tour length
    status,      \* "ok", or "panicked" once an operation has panicked
    hist,        \* history: the names of the operations invoked so far
    lastOrder,   \* history: the argument of the last apply, <<>> before the first
    ret,         \* the last call of a query or of flip_at: its name, arguments, result
    mst          \* working state of the minimum-spanning-tree builder

vars == <<container, vertices, parents, total_dist, status, hist, lastOrder, ret, mst>>

-----------------------------------------------------------------------------
(* Bounds of the model. *)
MaxN == 3      \* largest node count
MaxG == 3      \* largest group capacity
MaxOps == 4    \* longest sequence of operations on one tour
MaxRawOps == 2 \* longest sequence of operations when apply takes unchecked input
MaxLookupOps == 2 \* longest sequence of mutations before by-index lookups
MaxVisitOps == 3 \* longest sequence of mutations when visited flags are written
MaxFrameN == 4 \* most nodes of a tour whose reversals are compared link by link
MaxFrameOps == 3 \* longest sequence of mutations on such a tour
MaxMstN == 3 \* most nodes of an enumerated graph handed to build_mst
MaxW == 3 \* largest edge weight of an enumerated graph
MaxCallOps == 2 \* longest sequence of mutations when between_at and flip_at are called

(* Weak::new(): a weak reference that never upgrades. *)
None == -1

(* seq_id of a vertex not attached to any parent (usize::MAX in the      *)
(* source; only ever compared, never used in arithmetic).                *)
UsizeMax == 2147483647

-----------------------------------------------------------------------------
(* Sizes. *)
v_len == container
p_len == Cardinality(DOMAIN parents)
VIdx == 0 .. (v_len - 1)
PIdx == 0 .. (p_len - 1)

Min(a, b) == IF a <= b THEN a ELSE b

(* Container::distance for integer edge weights: symmetric, zero on the  *)
(* diagonal, and different cycles over the same nodes get different      *)
(* lengths.                                                              *)
distance(a, b) ==
    IF a = b THEN 0
    ELSE LET lo == Min(a, b)
             hi == IF a <= b THEN b ELSE a
         IN (lo + 1) * (hi + 1) * (hi + 1)

(* No query has been called since the last mutation of the tour. *)
NoCall == [op |-> "none", args |-> <<>>, value |-> None]

(* The spanning-tree builder has not been started. *)
NoMst == [n |-> 0]

(* TltVertex::new *)
TltVertexNew ==
    [seq_id |-> UsizeMax, visited |-> FALSE, prev |-> None, next |-> None, parent |-> None]

(* ParentVertex::new *)
ParentVertexNew(id, max_size) ==
    [id |-> id, size |-> 0, max_size |-> max_size, reverse |-> FALSE,
     prev |-> None, next |-> None, first |-> None, last |-> None]

(* TwoLevelTree::new *)
TwoLevelTreeNew(len, max_groupsize) ==
    /\ container = len
    /\ vertices = [v \in 0 .. (len - 1) |-> TltVertexNew]
    /\ parents = [id \in 0 .. (len \div max_groupsize) |-> ParentVertexNew(id, max_groupsize)]
    /\ total_dist = 0

Init ==
    /\ \E len \in 1 .. MaxN, max_groupsize \in 1 .. MaxG : TwoLevelTreeNew(len, max_groupsize)
    /\ status = "ok"
    /\ hist = <<>>
    /\ lastOrder = <<>>
    /\ ret = NoCall
    /\ mst = NoMst

-----------------------------------------------------------------------------
(* apply.  The working state st = [vs, ps, td, ok] is threaded through   *)
(* the two nested loops; ok = FALSE records a panic, after which the     *)
(* remaining iterations do not run.                                      *)

(* tour[i] of the Rust slice (0-based). *)
At(tour, i) == tour[i + 1]

(* ApplyParentStep without the size reset of line 71. *)
ApplyParentStep_KeepSize(ps, ip) ==
    LET np  == Cardinality(DOMAIN ps)
        nxt == (ip + 1) % np
        prv == IF ip = 0 THEN np - 1 ELSE ip - 1
        s2  == [ps EXCEPT ![ip].next = nxt]
        s3  == [s2 EXCEPT ![nxt].prev = ip]
        s4  == [s3 EXCEPT ![ip].prev = prv]
        s5  == [s4 EXCEPT ![prv].next = ip]
    IN s5

(* Lines 63-76: size reset and relinking of the outer list for parent ip. *)
ApplyParentStep(ps, ip) ==
    LET np  == Cardinality(DOMAIN ps)
        nxt == (ip + 1) % np
        prv == IF ip = 0 THEN np - 1 ELSE ip - 1
        s1  == [ps EXCEPT ![ip].size = 0]
        s2  == [s1 EXCEPT ![ip].next = nxt]
        s3  == [s2 EXCEPT ![nxt].prev = ip]
        s4  == [s3 EXCEPT ![ip].prev = prv]
        s5  == [s4 EXCEPT ![prv].next = ip]
    IN s5

(* ApplyLinkStep without the back link of line 102. *)
ApplyLinkStep_NoBackLink(vs, v, next_v, prev_v) ==
    LET l1 == [vs EXCEPT ![v].next = next_v]
        l3 == [l1 EXCEPT ![v].prev = prev_v]
        l4 == [l3 EXCEPT ![prev_v].next = v]
    IN l4

(* Lines 101-104: the four link assignments of one inner iteration. *)
ApplyLinkStep(vs, v, next_v, prev_v) ==
    LET l1 == [vs EXCEPT ![v].next = next_v]
        l2 == [l1 EXCEPT ![next_v].prev = v]
        l3 == [l2 EXCEPT ![v].prev = prev_v]
        l4 == [l3 EXCEPT ![prev_v].next = v]
    IN l4

(* Lines 106-110: accumulation of the cached distance and of the size. *)
ApplyCountStep(st, ip, v, next_v) ==
    [st EXCEPT !.td = @ + distance(v, next_v), !.ps[ip].size = @ + 1]

(* ApplyVertexStep without the parent assignment of line 84. *)
ApplyVertexStep_NoParent(st, tour, ip, iv, beg_seg, end_seg) ==
    LET nv == Cardinality(DOMAIN st.vs)
    IN
    IF ~st.ok THEN st
    ELSE IF iv >= Len(tour) \/ At(tour, iv) >= nv
    THEN [st EXCEPT !.ok = FALSE]
    ELSE
      LET v  == At(tour, iv)
          a1 == [st EXCEPT !.vs[v].seq_id = iv - beg_seg]
          a2 == IF iv = beg_seg THEN [a1 EXCEPT !.ps[ip].first = v] ELSE a1
          a3 == IF iv = end_seg - 1 THEN [a2 EXCEPT !.ps[ip].last = v] ELSE a2
          j  == (iv + 1) % nv
      IN
      IF j >= Len(tour) \/ At(tour, j) >= nv
      THEN [a3 EXCEPT !.ok = FALSE]
      ELSE
        LET next_v == At(tour, j)
            prev_v == IF iv = 0 THEN nv - 1 ELSE At(tour, iv - 1)
            a4 == [a3 EXCEPT !.vs = ApplyLinkStep(@, v, next_v, prev_v)]
            a5 == ApplyCountStep(a4, ip, v, next_v)
        IN [a5 EXCEPT !.vs[v].visited = FALSE]

(* ApplyVertexStep with seq_id counted from the start of the tour        *)
(* instead of from the start of the segment (line 83).                   *)
ApplyVertexStep_AbsSeq(st, tour, ip, iv, beg_seg, end_seg) ==
    LET nv == Cardinality(DOMAIN st.vs)
    IN
    IF ~st.ok THEN st
    ELSE IF iv >= Len(tour) \/ At(tour, iv) >= nv
    THEN [st EXCEPT !.ok = FALSE]
    ELSE
      LET v  == At(tour, iv)
          a1 == [st EXCEPT !.vs[v].seq_id = iv, !.vs[v].parent = ip]
          a2 == IF iv = beg_seg THEN [a1 EXCEPT !.ps[ip].first = v] ELSE a1
          a3 == IF iv = end_seg - 1 THEN [a2 EXCEPT !.ps[ip].last = v] ELSE a2
          j  == (iv + 1) % nv
      IN
      IF j >= Len(tour) \/ At(tour, j) >= nv
      THEN [a3 EXCEPT !.ok = FALSE]
      ELSE
        LET next_v == At(tour, j)
            prev_v == IF iv = 0 THEN nv - 1 ELSE At(tour, iv - 1)
            a4 == [a3 EXCEPT !.vs = ApplyLinkStep(@, v, next_v, prev_v)]
            a5 == ApplyCountStep(a4, ip, v, next_v)
        IN [a5 EXCEPT !.vs[v].visited = FALSE]

(* Lines 82-111: one iteration of the inner loop. *)
ApplyVertexStep(st, tour, ip, iv, beg_seg, end_seg) ==
    LET nv == Cardinality(DOMAIN st.vs)
    IN
    IF ~st.ok THEN st
    ELSE IF iv >= Len(tour) \/ At(tour, iv) >= nv
    THEN [st EXCEPT !.ok = FALSE]                        \* line 82: index or unwrap panic
    ELSE
      LET v  == At(tour, iv)
          a1 == [st EXCEPT !.vs[v].seq_id = iv - beg_seg, !.vs[v].parent = ip]
          a2 == IF iv = beg_seg THEN [a1 EXCEPT !.ps[ip].first = v] ELSE a1
          a3 == IF iv = end_seg - 1 THEN [a2 EXCEPT !.ps[ip].last = v] ELSE a2
          j  == (iv + 1) % nv
      IN
      IF j >= Len(tour) \/ At(tour, j) >= nv
      THEN [a3 EXCEPT !.ok = FALSE]                      \* line 94: index or unwrap panic
      ELSE
        LET next_v == At(tour, j)
            prev_v == IF iv = 0 THEN nv - 1 ELSE At(tour, iv - 1)
            a4 == [a3 EXCEPT !.vs = ApplyLinkStep(@, v, next_v, prev_v)]
            a5 == ApplyCountStep(a4, ip, v, next_v)
        IN [a5 EXCEPT !.vs[v].visited = FALSE]

(* Lines 81-112: the inner loop over iv in beg_seg .. end_seg - 1. *)
RECURSIVE ApplyVertices(_, _, _, _, _, _)
ApplyVertices(st, tour, ip, iv, beg_seg, end_seg) ==
    IF iv >= end_seg THEN st
    ELSE ApplyVertices(ApplyVertexStep(st, tour, ip, iv, beg_seg, end_seg),
                       tour, ip, iv + 1, beg_seg, end_seg)

(* Lines 62-113: the outer loop over ip in 0 .. p_len - 1. *)
RECURSIVE ApplyParents(_, _, _)
ApplyParents(st, tour, ip) ==
    IF ip >= Cardinality(DOMAIN st.ps) \/ ~st.ok THEN st
    ELSE
      LET s1      == [st EXCEPT !.ps = ApplyParentStep(@, ip)]
          beg_seg == ip * s1.ps[ip].max_size
          end_seg == Min(beg_seg + s1.ps[ip].max_size, Cardinality(DOMAIN st.vs))
      IN ApplyParents(ApplyVertices(s1, tour, ip, beg_seg, beg_seg, end_seg), tour, ip + 1)

(* apply without the reset of line 60. *)
ApplyResetDist_Keep(st) == st

(* Line 60: the cached distance restarts from zero. *)
ApplyResetDist(st) == [st EXCEPT !.td = 0]

(* TwoLevelTree::apply as a function of the state before the call. *)
apply(vs, ps, td, tour) ==
    ApplyParents(ApplyResetDist([vs |-> vs, ps |-> ps, td |-> td, ok |-> TRUE]), tour, 0)

-----------------------------------------------------------------------------
(* Orders handed to apply. *)
IsPermutation(tour, len) ==
    /\ Len(tour) = len
    /\ \A k \in 0 .. (len - 1) : \E i \in 1 .. len : tour[i] = k

TourOrders(len) == {t \in [1 .. len -> 0 .. (len - 1)] : IsPermutation(t, len)}

(* History of the run. *)
nOps == Len(hist)
lastOp == IF hist = <<>> THEN "new" ELSE hist[Len(hist)]

(* The effect of tree.apply(&TourOrder::new(tour)) on the tour. *)
ApplyOp(tour) ==
    /\ status = "ok"
    /\ LET r == apply(vertices, parents, total_dist, tour)
       IN /\ vertices' = r.vs
          /\ parents' = r.ps
          /\ total_dist' = r.td
          /\ status' = IF r.ok THEN "ok" ELSE "panicked"
    /\ hist' = Append(hist, "apply")
    /\ lastOrder' = tour
    /\ ret' = NoCall
    /\ UNCHANGED <<container, mst>>

(* apply(order) with a TourOrder that is a permutation of [0, n). *)
Apply(tour) == nOps < MaxOps /\ ApplyOp(tour)

(* Unchecked orders: one entry short to one entry long, with entries up  *)
(* to one past the last node index.                                      *)
RawOrders(len) ==
    UNION {[1 .. k -> 0 .. len] : k \in (len - 1) .. (len + 1)}

(* apply(order) with any order the caller can build. *)
ApplyRaw(tour) == nOps < MaxRawOps /\ ApplyOp(tour)

-----------------------------------------------------------------------------
(* ParentVertex::reverse, called as parents[ip].borrow_mut().reverse().   *)
(* The caller holds the mutable borrow of parents[ip] for the whole call, *)
(* so prev_p.borrow() or next_p.borrow() on that same cell panics.        *)

(* ReversePrevSide pointing both links of the boundary vertex at the     *)
(* neighbour.                                                            *)
ReversePrevSide_BothLinks(vs, prev_rev, self_rev, prev_c, first, last) ==
    IF prev_rev /\ self_rev
    THEN [[vs EXCEPT ![prev_c].prev = first]
              EXCEPT ![first].prev = prev_c, ![first].next = prev_c]
    ELSE IF prev_rev /\ ~self_rev
    THEN [[vs EXCEPT ![prev_c].prev = last]
              EXCEPT ![last].next = prev_c, ![last].prev = prev_c]
    ELSE IF ~prev_rev /\ self_rev
    THEN [[vs EXCEPT ![prev_c].next = first]
              EXCEPT ![first].prev = prev_c, ![first].next = prev_c]
    ELSE [[vs EXCEPT ![prev_c].next = last]
              EXCEPT ![last].next = prev_c, ![last].prev = prev_c]

(* Lines 404-425: relinking towards the previous segment. *)
ReversePrevSide(vs, prev_rev, self_rev, prev_c, first, last) ==
    IF prev_rev /\ self_rev
    THEN [[vs EXCEPT ![prev_c].prev = first] EXCEPT ![first].prev = prev_c]
    ELSE IF prev_rev /\ ~self_rev
    THEN [[vs EXCEPT ![prev_c].prev = last] EXCEPT ![last].next = prev_c]
    ELSE IF ~prev_rev /\ self_rev
    THEN [[vs EXCEPT ![prev_c].next = first] EXCEPT ![first].prev = prev_c]
    ELSE [[vs EXCEPT ![prev_c].next = last] EXCEPT ![last].next = prev_c]

(* Lines 429-450: relinking towards the next segment. *)
ReverseNextSide(vs, self_rev, next_rev, next_c, first, last) ==
    IF self_rev /\ next_rev
    THEN [[vs EXCEPT ![last].next = next_c] EXCEPT ![next_c].next = last]
    ELSE IF self_rev /\ ~next_rev
    THEN [[vs EXCEPT ![last].next = next_c] EXCEPT ![next_c].prev = last]
    ELSE IF ~self_rev /\ next_rev
    THEN [[vs EXCEPT ![first].prev = next_c] EXCEPT ![next_c].next = first]
    ELSE [[vs EXCEPT ![first].prev = next_c] EXCEPT ![next_c].prev = first]

(* Line 454: the flag is toggled last. *)
ReverseToggle(ps, ip) == [ps EXCEPT ![ip].reverse = ~@]

(* Lines 394-455.  The result is [vs, ps, ok]. *)
reverse(vs, ps, ip) ==
    LET self  == ps[ip]
        first == self.first
        last  == self.last
    IN
    IF first = None \/ last = None
    THEN [vs |-> vs, ps |-> ReverseToggle(ps, ip), ok |-> TRUE]
    ELSE
      LET tmp_prev == IF self.reverse THEN vs[last].next ELSE vs[first].prev
          tmp_next == IF self.reverse THEN vs[first].prev ELSE vs[last].next
          doPrev   == tmp_prev # None /\ self.prev # None
          doNext   == tmp_next # None /\ self.next # None
      IN
      IF doPrev /\ self.prev = ip
      THEN [vs |-> vs, ps |-> ps, ok |-> FALSE]          \* line 404: BorrowError
      ELSE
        LET v1 == IF doPrev
                  THEN ReversePrevSide(vs, ps[self.prev].reverse, self.reverse,
                                       tmp_prev, first, last)
                  ELSE vs
        IN
        IF doNext /\ self.next = ip
        THEN [vs |-> v1, ps |-> ps, ok |-> FALSE]        \* line 429: BorrowError
        ELSE
          LET v2 == IF doNext
                    THEN ReverseNextSide(v1, self.reverse, ps[self.next].reverse,
                                         tmp_next, first, last)
                    ELSE v1
          IN [vs |-> v2, ps |-> ReverseToggle(ps, ip), ok |-> TRUE]

(* The effect of parents[ip].borrow_mut().reverse() on the tour. *)
ReverseOp(ip) ==
    /\ status = "ok"
    /\ LET r == reverse(vertices, parents, ip)
       IN /\ vertices' = r.vs
          /\ parents' = r.ps
          /\ status' = IF r.ok THEN "ok" ELSE "panicked"
    /\ hist' = Append(hist, "reverse")
    /\ ret' = NoCall
    /\ UNCHANGED <<container, total_dist, lastOrder, mst>>

(* parents[ip].borrow_mut().reverse() *)
Reverse(ip) == nOps < MaxOps /\ ReverseOp(ip)

ReverseRaw(ip) == nOps < MaxRawOps /\ ReverseOp(ip)

-----------------------------------------------------------------------------
(* Queries. *)

(* TwoLevelTree::next, with None for "no result". *)
next(v) ==
    IF vertices[v].parent = None THEN None
    ELSE IF parents[vertices[v].parent].reverse THEN vertices[v].prev
    ELSE vertices[v].next

(* TwoLevelTree::prev, with None for "no result". *)
prev(v) ==
    IF vertices[v].parent = None THEN None
    ELSE IF parents[vertices[v].parent].reverse THEN vertices[v].next
    ELSE vertices[v].prev

(* crate::tour::between on sequence ids or segment ids: strictly         *)
(* increasing from -> mid -> to, read cyclically.                        *)
tour_between(from, mid, to) ==
    \/ from < mid /\ mid < to
    \/ mid < to /\ to < from
    \/ to < from /\ from < mid

(* Weak::ptr_eq on two parent references; two Weak::new() compare equal. *)
ptr_eq(a, b) == a = b

(* between_arm with the (true, false, false) arm missing. *)
between_arm_NoTff(from, mid, to) ==
    LET fm == ptr_eq(vertices[from].parent, vertices[mid].parent)
        mt == ptr_eq(vertices[mid].parent, vertices[to].parent)
        tf == ptr_eq(vertices[to].parent, vertices[from].parent)
    IN
    IF fm /\ mt /\ tf THEN "ttt"
    ELSE IF ~fm /\ mt /\ ~tf THEN "ftf"
    ELSE IF ~fm /\ ~mt /\ tf THEN "fft"
    ELSE IF ~fm /\ ~mt /\ ~tf THEN "fff"
    ELSE "panic"

(* Lines 118-156: the arm of the match that between takes; "panic" is   *)
(* the wildcard arm of line 155.                                         *)
between_arm(from, mid, to) ==
    LET fm == ptr_eq(vertices[from].parent, vertices[mid].parent)
        mt == ptr_eq(vertices[mid].parent, vertices[to].parent)
        tf == ptr_eq(vertices[to].parent, vertices[from].parent)
    IN
    IF fm /\ mt /\ tf THEN "ttt"
    ELSE IF fm /\ ~mt /\ ~tf THEN "tff"
    ELSE IF ~fm /\ mt /\ ~tf THEN "ftf"
    ELSE IF ~fm /\ ~mt /\ tf THEN "fft"
    ELSE IF ~fm /\ ~mt /\ ~tf THEN "fff"
    ELSE "panic"

(* Lines 124-144: the arms for exactly one pair (x, y) in one segment. *)
between_pair(x, y) ==
    IF vertices[x].parent # None
    THEN parents[vertices[x].parent].reverse # (vertices[x].seq_id <= vertices[y].seq_id)
    ELSE FALSE

(* between with the (false, false, true) arm comparing from <= to. *)
between_FftSwapped(from, mid, to) ==
    LET arm == between_arm(from, mid, to)
        fp  == vertices[from].parent
        mp  == vertices[mid].parent
        tp  == vertices[to].parent
    IN
    IF arm = "ttt"
    THEN {tour_between(vertices[from].seq_id, vertices[mid].seq_id, vertices[to].seq_id)}
    ELSE IF arm = "tff" THEN {between_pair(from, mid)}
    ELSE IF arm = "ftf" THEN {between_pair(mid, to)}
    ELSE IF arm = "fft" THEN {between_pair(from, to)}
    ELSE IF arm = "fff"
    THEN IF None \in {fp, mp, tp} THEN BOOLEAN
         ELSE {tour_between(parents[fp].id, parents[mp].id, parents[tp].id)}
    ELSE {}

(* TwoLevelTree::between: the set of values the call can return.  The   *)
(* set is empty when the call panics; in the arm for three distinct      *)
(* segments the parent is read through as_ptr without upgrading, so a    *)
(* detached vertex there is a read of a dangling reference and any       *)
(* answer is possible.                                                   *)
between(from, mid, to) ==
    LET arm == between_arm(from, mid, to)
        fp  == vertices[from].parent
        mp  == vertices[mid].parent
        tp  == vertices[to].parent
    IN
    IF arm = "ttt"
    THEN {tour_between(vertices[from].seq_id, vertices[mid].seq_id, vertices[to].seq_id)}
    ELSE IF arm = "tff" THEN {between_pair(from, mid)}
    ELSE IF arm = "ftf" THEN {between_pair(mid, to)}
    ELSE IF arm = "fft" THEN {between_pair(to, from)}
    ELSE IF arm = "fff"
    THEN IF None \in {fp, mp, tp} THEN BOOLEAN
         ELSE {tour_between(parents[fp].id, parents[mp].id, parents[tp].id)}
    ELSE {}

-----------------------------------------------------------------------------
(* By-index lookups.  A lookup leaves the tour alone; its result is kept *)
(* in ret.                                                               *)

(* Indices a caller may pass: every node index and two past the end. *)
LookupIdx == 0 .. (v_len + 1)

(* TwoLevelTree::get: the vertex at node_idx, or None. *)
get(node_idx) == IF node_idx \in VIdx THEN node_idx ELSE None

(* next_at answering for the index wrapped into range. *)
next_at_Wrap(node_idx) == next(node_idx % v_len)

(* TwoLevelTree::next_at *)
next_at(node_idx) ==
    IF node_idx \in VIdx
    THEN IF vertices[node_idx].parent # None
         THEN IF parents[vertices[node_idx].parent].reverse
              THEN vertices[node_idx].prev
              ELSE vertices[node_idx].next
         ELSE None
    ELSE None

(* TwoLevelTree::prev_at *)
prev_at(node_idx) ==
    IF node_idx \in VIdx
    THEN IF vertices[node_idx].parent # None
         THEN IF parents[vertices[node_idx].parent].reverse
              THEN vertices[node_idx].next
              ELSE vertices[node_idx].prev
         ELSE None
    ELSE None

(* What a call on &self leaves unchanged. *)
TourUnchanged == UNCHANGED <<container, vertices, parents, total_dist, status, hist, lastOrder, mst>>

Get(node_idx) ==
    /\ status = "ok"
    /\ ret' = [op |-> "get", args |-> <<node_idx>>, value |-> get(node_idx)]
    /\ TourUnchanged

NextAt(node_idx) ==
    /\ status = "ok"
    /\ ret' = [op |-> "next_at", args |-> <<node_idx>>, value |-> next_at(node_idx)]
    /\ TourUnchanged

PrevAt(node_idx) ==
    /\ status = "ok"
    /\ ret' = [op |-> "prev_at", args |-> <<node_idx>>, value |-> prev_at(node_idx)]
    /\ TourUnchanged

(* TwoLevelTree::between_at: the set of values the call can return      *)
(* (empty when between panics).                                          *)
between_at(from_idx, mid_idx, to_idx) ==
    IF get(from_idx) # None /\ get(mid_idx) # None /\ get(to_idx) # None
    THEN between(get(from_idx), get(mid_idx), get(to_idx))
    ELSE {FALSE}

BetweenAt(from_idx, mid_idx, to_idx) ==
    /\ status = "ok"
    /\ LET rs == between_at(from_idx, mid_idx, to_idx)
       IN IF rs = {}
          THEN /\ status' = "panicked"
               /\ ret' = [op |-> "between_at", args |-> <<from_idx, mid_idx, to_idx>>,
                          value |-> None]
          ELSE /\ status' = "ok"
               /\ \E r \in rs :
                     ret' = [op |-> "between_at", args |-> <<from_idx, mid_idx, to_idx>>,
                             value |-> r]
    /\ UNCHANGED <<container, vertices, parents, total_dist, hist, lastOrder, mst>>

(* The successor and predecessor maps and the cached distance, as a      *)
(* caller can observe them.                                              *)
Observed ==
    [succ |-> [v \in VIdx |-> next(v)],
     pred |-> [v \in VIdx |-> prev(v)],
     td   |-> total_dist]

(* TwoLevelTree::flip_at: the body is todo!(), which panics before it    *)
(* touches the tour.  ret keeps the arguments, what the caller observed  *)
(* before the call, and the call that preceded it.                       *)
FlipAt(from_a, to_a, from_b, to_b) ==
    /\ status = "ok"
    /\ nOps < MaxCallOps
    /\ status' = "panicked"
    /\ hist' = Append(hist, "flip_at")
    /\ ret' = [op |-> "flip_at", args |-> <<from_a, to_a, from_b, to_b>>,
               value |-> [pre |-> Observed,
                          before |-> IF ret.op = "flip_at"
                                     THEN [op |-> ret.op, args |-> ret.args,
                                           pre |-> ret.value.pre]
                                     ELSE NoCall]]
    /\ UNCHANGED <<container, vertices, parents, total_dist, lastOrder, mst>>

ApplyCall(tour) == nOps < MaxCallOps /\ ApplyOp(tour)

ReverseCall(ip) == nOps < MaxCallOps /\ ReverseOp(ip)

(* TwoLevelTree::reset: Vertex::visited(false) on every vertex. *)
reset(vs) == [v \in VIdx |-> [vs[v] EXCEPT !.visited = FALSE]]

Reset ==
    /\ status = "ok"
    /\ nOps < MaxVisitOps
    /\ vertices' = reset(vertices)
    /\ hist' = Append(hist, "reset")
    /\ ret' = NoCall
    /\ UNCHANGED <<container, parents, total_dist, status, lastOrder, mst>>

visited_at_All(vs, kin_index, flag) == [v \in VIdx |-> [vs[v] EXCEPT !.visited = flag]]

(* TwoLevelTree::visited_at on an index of the vertex array. *)
visited_at(vs, kin_index, flag) == [vs EXCEPT ![kin_index].visited = flag]

(* self.vertices[kin_index] panics when kin_index is out of bounds. *)
VisitedAt(kin_index, flag) ==
    /\ status = "ok"
    /\ nOps < MaxVisitOps
    /\ IF kin_index \in VIdx
       THEN /\ vertices' = visited_at(vertices, kin_index, flag)
            /\ status' = "ok"
       ELSE /\ vertices' = vertices
            /\ status' = "panicked"
    /\ hist' = Append(hist, "visited_at")
    /\ ret' = [op |-> "visited_at", args |-> <<kin_index>>, value |-> flag]
    /\ UNCHANGED <<container, parents, total_dist, lastOrder, mst>>

ApplyVisit(tour) == nOps < MaxVisitOps /\ ApplyOp(tour)

ReverseVisit(ip) == nOps < MaxVisitOps /\ ReverseOp(ip)

ApplyFrame(tour) == nOps < MaxFrameOps /\ ApplyOp(tour)

ReverseFrame(ip) == nOps < MaxFrameOps /\ ReverseOp(ip)

VisitedAtFrame(kin_index, flag) == nOps < MaxFrameOps /\ VisitedAt(kin_index, flag)

ApplyLookup(tour) == nOps < MaxLookupOps /\ ApplyOp(tour)

ReverseLookup(ip) == nOps < MaxLookupOps /\ ReverseOp(ip)

-----------------------------------------------------------------------------
(* build_mst: Prim's algorithm over the container's costs, from root 0.  *)
(* A graph is its upper-triangular cost matrix, a function on the pairs  *)
(* <<i, j>> with i < j; cost 0 stands for "no edge", as in the matrix of *)
(* test_build_mst.                                                       *)

Pairs(n) == {p \in (0 .. (n - 1)) \X (0 .. (n - 1)) : p[1] < p[2]}

cost(costs, i, j) ==
    IF i = j THEN 0 ELSE IF i < j THEN costs[<<i, j>>] ELSE costs[<<j, i>>]

(* The rows of the upper matrix of test_build_mst. *)
WikiCosts ==
    << <<0, 1, 0, 4, 3, 0>>,
       <<0, 0, 4, 2, 0>>,
       <<0, 0, 4, 5>>,
       <<0, 4, 0>>,
       <<0, 7>>,
       <<0>> >>

WikiN == Len(WikiCosts)

WikiGraph == [p \in Pairs(WikiN) |-> WikiCosts[p[1] + 1][p[2] - p[1] + 1]]

(* The parents test_build_mst expects. *)
WikiExpected == (0 :> None) @@ (1 :> 0) @@ (4 :> 1) @@ (3 :> 0) @@ (2 :> 4) @@ (5 :> 2)

RECURSIVE Reach(_, _, _, _)
Reach(n, costs, S, k) ==
    IF k = 0 THEN S
    ELSE Reach(n, costs,
               S \cup {v \in 0 .. (n - 1) : \E u \in S : cost(costs, u, v) # 0}, k - 1)

Connected(n, costs) == Reach(n, costs, {0}, n) = 0 .. (n - 1)

Graphs ==
    {[n |-> WikiN, costs |-> WikiGraph]} \cup
    UNION {{[n |-> n, costs |-> c] : c \in {c \in [Pairs(n) -> 0 .. MaxW] : Connected(n, c)}}
           : n \in 2 .. MaxMstN}

(* A candidate edge of weight c improves on the key k held so far. *)
Better(c, k) == c # 0 /\ (k = None \/ c < k)

(* The builder after the root has entered the tree. *)
MstStart(g) ==
    [n      |-> g.n,
     costs  |-> g.costs,
     tree   |-> {0},
     order  |-> <<0>>,
     key    |-> [v \in 0 .. (g.n - 1) |->
                   IF cost(g.costs, 0, v) # 0 THEN cost(g.costs, 0, v) ELSE None],
     parent |-> [v \in 0 .. (g.n - 1) |-> IF cost(g.costs, 0, v) # 0 THEN 0 ELSE None]]

MstFrontier(m) == {v \in (0 .. (m.n - 1)) \ m.tree : m.key[v] # None}

MstPick_Highest(m) ==
    CHOOSE v \in MstFrontier(m) :
        \A u \in MstFrontier(m) :
            m.key[v] < m.key[u] \/ (m.key[v] = m.key[u] /\ v >= u)

(* The frontier node of least key, the lowest index among equal keys. *)
MstPick(m) ==
    CHOOSE v \in MstFrontier(m) :
        \A u \in MstFrontier(m) :
            m.key[v] < m.key[u] \/ (m.key[v] = m.key[u] /\ v <= u)

(* One round of Prim: the picked node enters the tree and offers its     *)
(* edges to the nodes still outside.                                     *)
MstGrow(m) ==
    LET v == MstPick(m)
        improved(u) == u \notin m.tree /\ u # v /\ Better(cost(m.costs, v, u), m.key[u])
    IN [m EXCEPT !.tree = @ \cup {v},
                 !.order = Append(@, v),
                 !.key = [u \in DOMAIN @ |-> IF improved(u) THEN cost(m.costs, v, u) ELSE @[u]],
                 !.parent = [u \in DOMAIN @ |-> IF improved(u) THEN v ELSE @[u]]]

MstDone == mst.n > 0 /\ mst.tree = 0 .. (mst.n - 1)

MstStep ==
    /\ mst.n > 0
    /\ MstFrontier(mst) # {}
    /\ mst' = MstGrow(mst)
    /\ UNCHANGED <<container, vertices, parents, total_dist, status, hist, lastOrder, ret>>

(* TwoLevelList::new(&repo, n) on the repo of a graph, build_mst begun. *)
InitMst ==
    /\ \E g \in Graphs : mst = MstStart(g) /\ TwoLevelTreeNew(g.n, g.n)
    /\ status = "ok"
    /\ hist = <<>>
    /\ lastOrder = <<>>
    /\ ret = NoCall

NextMst == MstStep

SpecMst == InitMst /\ [][NextMst]_vars

-----------------------------------------------------------------------------
Next ==
    \/ \E tour \in TourOrders(v_len) : Apply(tour)
    \/ \E ip \in PIdx : Reverse(ip)

Spec == Init /\ [][Next]_vars

(* The same tour driven with unchecked apply arguments. *)
NextRaw ==
    \/ \E tour \in RawOrders(v_len) : ApplyRaw(tour)
    \/ \E ip \in PIdx : ReverseRaw(ip)

SpecRaw == Init /\ [][NextRaw]_vars

(* The tour with by-index lookups between the mutations. *)
NextLookup ==
    \/ \E tour \in TourOrders(v_len) : ApplyLookup(tour)
    \/ \E ip \in PIdx : ReverseLookup(ip)
    \/ \E node_idx \in LookupIdx : Get(node_idx)
    \/ \E node_idx \in LookupIdx : NextAt(node_idx)
    \/ \E node_idx \in LookupIdx : PrevAt(node_idx)

SpecLookup == Init /\ [][NextLookup]_vars

(* The tour with its visited flags written and cleared. *)
NextVisit ==
    \/ \E tour \in TourOrders(v_len) : ApplyVisit(tour)
    \/ \E ip \in PIdx : ReverseVisit(ip)
    \/ Reset
    \/ \E i \in 0 .. v_len, flag \in BOOLEAN : VisitedAt(i, flag)

SpecVisit == Init /\ [][NextVisit]_vars

(* The natural order of test_parent_reverse and its mirror image. *)
FrameOrders(len) == {[i \in 1 .. len |-> i - 1], [i \in 1 .. len |-> len - i]}

(* Tours of up to MaxFrameN nodes, applied in those orders and reversed  *)
(* with visited flags set.                                               *)
InitFrame ==
    /\ \E len \in 1 .. MaxFrameN, max_groupsize \in 1 .. MaxG :
          TwoLevelTreeNew(len, max_groupsize)
    /\ status = "ok"
    /\ hist = <<>>
    /\ lastOrder = <<>>
    /\ ret = NoCall
    /\ mst = NoMst

NextFrame ==
    \/ \E tour \in FrameOrders(v_len) : ApplyFrame(tour)
    \/ \E ip \in PIdx : ReverseFrame(ip)
    \/ \E i \in VIdx, flag \in BOOLEAN : VisitedAtFrame(i, flag)

SpecFrame == InitFrame /\ [][NextFrame]_vars

(* The tour with between_at and flip_at calls. *)
NextCalls ==
    \/ \E tour \in TourOrders(v_len) : ApplyCall(tour)
    \/ \E ip \in PIdx : ReverseCall(ip)
    \/ \E i, j, k \in LookupIdx : BetweenAt(i, j, k)
    \/ \E a, b, c, d \in VIdx : FlipAt(a, b, c, d)

SpecCalls == Init /\ [][NextCalls]_vars

-----------------------------------------------------------------------------
(* Reference notions the properties are stated with. *)

(* The vertex reached from v by k logical successor steps (None once a   *)
(* step has no result).                                                  *)
RECURSIVE Walk(_, _)
Walk(v, k) == IF k = 0 \/ v = None THEN v ELSE Walk(next(v), k - 1)

(* Walking successor from v visits every vertex once and is back at v    *)
(* after exactly v_len steps.                                            *)
HamiltonianFrom(v) ==
    /\ {Walk(v, k) : k \in 0 .. (v_len - 1)} = VIdx
    /\ Walk(v, v_len) = v

(* Number of successor steps from a to the first visit of x, v_len + 1   *)
(* if the walk does not get there.                                       *)
StepsTo(a, x) ==
    LET hits == {k \in 1 .. v_len : Walk(a, k) = x}
    IN IF hits = {} THEN v_len + 1 ELSE CHOOSE k \in hits : \A m \in hits : k <= m

(* Walking successor from a reaches b before c. *)
ReachesBefore(a, b, c) == StepsTo(a, b) < StepsTo(a, c)

(* The tour reads as `tour`: successor and predecessor of every entry    *)
(* are its cyclic neighbours in the sequence.                            *)
ReadsAs(tour) ==
    \A i \in 0 .. (v_len - 1) :
        /\ next(At(tour, i)) = At(tour, (i + 1) % v_len)
        /\ prev(At(tour, i)) = At(tour, (i + v_len - 1) % v_len)

(* Sum of the edge weights of the cycle `tour`, closing edge included. *)
RECURSIVE TourLengthFrom(_, _)
TourLengthFrom(tour, i) ==
    IF i >= Len(tour) THEN 0
    ELSE distance(At(tour, i), At(tour, (i + 1) % Len(tour))) + TourLengthFrom(tour, i + 1)

TourLength(tour) == TourLengthFrom(tour, 0)

RECURSIVE SumSizes(_)
SumSizes(ip) == IF ip >= p_len THEN 0 ELSE parents[ip].size + SumSizes(ip + 1)

Distinct3(a, b, c) == a # b /\ b # c /\ c # a

Ok == status = "ok"
AppliedOnce == lastOrder # <<>>

-----------------------------------------------------------------------------
(* C1: on a newly constructed tour, for every group capacity and every   *)
(* permutation `order`, apply(order) makes successor(order[i]) =         *)
(* order[i+1 mod n] and predecessor(order[i]) = order[i-1 mod n], so n   *)
(* successor steps from any vertex visit every vertex once and return.   *)
C1_FreshApplyRoundTrip ==
    (hist = <<"apply">> /\ Ok) =>
        /\ ReadsAs(lastOrder)
        /\ \A v \in VIdx : HamiltonianFrom(v)

C1_Witness ==
    /\ hist = <<"apply">> /\ Ok
    /\ v_len = 3 /\ p_len = 2
    /\ lastOrder = <<2, 0, 1>>
    /\ ReadsAs(lastOrder)

(* C2: apply(order) from any state reached by earlier applies and        *)
(* segment reversals gives the order a fresh tour would give:            *)
(* successor(order[i]) = order[i+1 mod n], predecessor(order[i]) =       *)
(* order[i-1 mod n].                                                     *)
C2_ApplyResetsHistory ==
    (lastOp = "apply" /\ Ok) => ReadsAs(lastOrder)

(* C3: after the first apply, through any further applies and segment    *)
(* reversals, walking successor from any vertex visits every vertex once *)
(* and returns to the start after exactly n steps.                       *)
C3_HamiltonianCycle ==
    (AppliedOnce /\ Ok) => \A v \in VIdx : HamiltonianFrom(v)

(* C4: for pairwise-distinct a, b, c, between(a, b, c) is true iff       *)
(* walking successor from a reaches b before c.                          *)
C4_BetweenIsWalkOrder ==
    Ok => \A a, b, c \in VIdx :
            Distinct3(a, b, c) => between(a, b, c) = {ReachesBefore(a, b, c)}

(* C5: for distinct a, b, c of one segment, between(a, b, c) is the      *)
(* cyclic betweenness of their sequence ids XOR the segment's reversed   *)
(* flag.                                                                 *)
C5_SameSegmentHonoursReverse ==
    Ok => \A a, b, c \in VIdx :
            (/\ Distinct3(a, b, c)
             /\ vertices[a].parent # None
             /\ vertices[a].parent = vertices[b].parent
             /\ vertices[b].parent = vertices[c].parent)
            => between(a, b, c) =
                 {tour_between(vertices[a].seq_id, vertices[b].seq_id, vertices[c].seq_id)
                    # parents[vertices[a].parent].reverse}

(* C6: between is invariant under rotation of its arguments:             *)
(* between(a,b,c) = between(b,c,a) = between(c,a,b) for all triples,     *)
(* whatever the reversed flags.                                          *)
C6_BetweenRotation ==
    Ok => \A a, b, c \in VIdx :
            \A r1 \in between(a, b, c), r2 \in between(b, c, a), r3 \in between(c, a, b) :
                r1 = r2 /\ r2 = r3

C6_Witness ==
    /\ Ok
    /\ \E a, b, c \in VIdx :
         /\ Distinct3(a, b, c)
         /\ between_arm(a, b, c) = "tff"
         /\ parents[vertices[a].parent].reverse
         /\ between(a, b, c) = {TRUE}
         /\ between(b, c, a) = {TRUE}
         /\ between(c, a, b) = {TRUE}

(* C7: for any three vertices (distinct or not), in any reachable state  *)
(* including before the first apply, between never takes the arm that    *)
(* raises the transitivity error.                                        *)
C7_NoTransitivityPanic ==
    \A a, b, c \in VIdx : between_arm(a, b, c) # "panic" /\ between(a, b, c) # {}

C7_Witness ==
    /\ AppliedOnce /\ Ok
    /\ \E a, b, c \in VIdx : between_arm(a, b, c) = "fft" /\ ~Distinct3(a, b, c)
    /\ \E a, b, c \in VIdx : between_arm(a, b, c) = "fff"

(* C8: apply(order) fails with a precondition violation whenever the    *)
(* length of order differs from the node count or order is not a         *)
(* permutation of [0, n); it never completes normally on such input.     *)
C8_ApplyRejectsMalformed ==
    (lastOp = "apply" /\ ~IsPermutation(lastOrder, v_len)) => status = "panicked"

(* C9: after apply(order), total_distance() is the sum of                *)
(* distance(order[i], order[i+1 mod n]) over all i, closing edge         *)
(* included, whatever was applied before.                                *)
C9_TotalDistance ==
    (lastOp = "apply" /\ Ok) => total_dist = TourLength(lastOrder)

C9_Witness ==
    /\ hist = <<"apply", "apply">> /\ Ok
    /\ v_len = 3
    /\ lastOrder = <<1, 0, 2>>
    /\ total_dist = distance(1, 0) + distance(0, 2) + distance(2, 1)

(* C10: after the first apply, every vertex references exactly one       *)
(* segment, each segment's size is the number of vertices referencing    *)
(* it, and the sizes sum to n.                                           *)
C10_Partition ==
    AppliedOnce =>
        /\ \A v \in VIdx : vertices[v].parent \in PIdx
        /\ \A ip \in PIdx :
             parents[ip].size = Cardinality({v \in VIdx : vertices[v].parent = ip})
        /\ SumSizes(0) = v_len

C10_Witness ==
    /\ AppliedOnce
    /\ Len(hist) >= 3 /\ hist[2] = "reverse" /\ lastOp = "apply"
    /\ v_len = 3 /\ p_len = 2
    /\ parents[0].size = 2 /\ parents[1].size = 1

(* C11: successor and predecessor give no result for every vertex       *)
(* before the first apply, and give a vertex for every v in every state  *)
(* reached after an apply of a permutation, reversals included.          *)
C11_NoResultOnlyDetached ==
    /\ ~AppliedOnce => \A v \in VIdx : next(v) = None /\ prev(v) = None
    /\ (AppliedOnce /\ Ok) => \A v \in VIdx : next(v) \in VIdx /\ prev(v) \in VIdx

C11_Witness ==
    /\ AppliedOnce /\ Ok
    /\ hist = <<"reverse", "apply", "reverse">>
    /\ v_len = 3 /\ p_len = 2
    /\ \E ip \in PIdx : parents[ip].reverse
    /\ \A v \in VIdx : next(v) \in VIdx /\ prev(v) \in VIdx

(* C12: get(idx), next_at(idx) and prev_at(idx) with idx >= n return the *)
(* explicit no-result value in every state, without failing and without  *)
(* changing any tour state.                                              *)
C12_OutOfRangeLookup ==
    [][(/\ ret' # ret
        /\ ret'.op \in {"get", "next_at", "prev_at"}
        /\ ret'.args[1] >= v_len)
       => /\ ret'.value = None
          /\ status' = "ok"
          /\ UNCHANGED <<container, vertices, parents, total_dist, hist, lastOrder>>]_vars

C12_Witness ==
    /\ AppliedOnce /\ Ok
    /\ lastOp = "reverse"
    /\ ret.op = "next_at"
    /\ ret.args = <<v_len>>
    /\ ret.value = None
    /\ next_at(v_len - 1) \in VIdx

(* C13: between_at with an index outside [0, n) returns an explicit      *)
(* no-result outcome, which the caller can tell apart from the answer    *)
(* false given for in-range triples.                                     *)
C13_BetweenAtOutOfRange ==
    (/\ Ok
     /\ ret.op = "between_at"
     /\ \E i \in 1 .. 3 : ret.args[i] >= v_len)
    => ret.value # FALSE

(* ---- flip_at: what the caller saw before the call, and what a 2-opt  *)
(* ---- move has to produce from it                                      *)

FlipCalled == ret.op = "flip_at"

FlipPre == ret.value.pre

RECURSIVE MapIter(_, _, _)
MapIter(f, v, k) == IF k = 0 \/ v \notin DOMAIN f THEN v ELSE MapIter(f, f[v], k - 1)

(* the successor map f is one cycle through all n vertices *)
IsCycle(f) ==
    /\ \A v \in VIdx : f[v] \in VIdx
    /\ v_len > 0
    /\ {MapIter(f, 0, k) : k \in 0 .. (v_len - 1)} = VIdx
    /\ MapIter(f, 0, v_len) = 0

MapSteps(f, a, x) == CHOOSE k \in 0 .. v_len : MapIter(f, a, k) = x

(* (a,b) and (c,d) are two distinct edges of the valid tour seen before *)
(* the call                                                              *)
FlipValid ==
    LET a == ret.args[1]  b == ret.args[2]  c == ret.args[3]  d == ret.args[4]
    IN /\ IsCycle(FlipPre.succ)
       /\ FlipPre.succ[a] = b
       /\ FlipPre.succ[c] = d
       /\ a # c

(* the old tour with the path b .. c reversed: a -> c, the path walked  *)
(* backwards, b -> d, every other vertex as before                       *)
FlipExpected ==
    LET a == ret.args[1]  b == ret.args[2]  c == ret.args[3]  d == ret.args[4]
        f == FlipPre.succ
        onPath(x) == MapSteps(f, b, x) <= MapSteps(f, b, c)
    IN [x \in VIdx |->
          IF x = a THEN c
          ELSE IF x = b THEN d
          ELSE IF onPath(x) THEN FlipPre.pred[x]
          ELSE f[x]]

Mirror(f) == [x \in VIdx |-> CHOOSE y \in VIdx : f[y] = x]

(* C14: for a valid tour with tour edges (a,b) and (c,d), flip_at(a,b,c,d) *)
(* completes and leaves the old cyclic order with the path between the   *)
(* cuts reversed (read in either direction).                             *)
C14_FlipEffect ==
    (FlipCalled /\ FlipValid)
    => /\ Ok
       /\ Observed.succ \in {FlipExpected, Mirror(FlipExpected)}

(* C15: flip_at(a,b,c,d) on a valid tour completes, and a following      *)
(* flip_at(a,c,b,d) restores the successor and predecessor of every      *)
(* vertex as they were before the first flip.                            *)
C15_FlipInverse ==
    /\ (FlipCalled /\ FlipValid) => status = "ok"
    /\ (/\ FlipCalled
        /\ ret.value.before.op = "flip_at"
        /\ ret.value.before.args =
              <<ret.args[1], ret.args[3], ret.args[2], ret.args[4]>>)
       => /\ Observed.succ = ret.value.before.pre.succ
          /\ Observed.pred = ret.value.before.pre.pred

(* sum of the edge weights v -> f[v] over the vertices v .. n-1 *)
RECURSIVE CycleLength(_, _)
CycleLength(f, v) ==
    IF v >= v_len THEN 0 ELSE distance(v, f[v]) + CycleLength(f, v + 1)

(* C16: after flip_at(a,b,c,d) on a valid tour, total_distance() is the  *)
(* old value - d(a,b) - d(c,d) + d(a,c) + d(b,d), and is the sum of the  *)
(* edge weights of the current cycle.                                    *)
C16_FlipDistance ==
    LET a == ret.args[1]  b == ret.args[2]  c == ret.args[3]  d == ret.args[4]
    IN (FlipCalled /\ FlipValid)
       => /\ status # "panicked"
          /\ total_dist = FlipPre.td - distance(a, b) - distance(c, d)
                                     + distance(a, c) + distance(b, d)
          /\ total_dist = CycleLength(Observed.succ, 0)

(* C17: flip_at on four indices that are not two distinct tour edges is  *)
(* fatal; on two distinct tour edges it completes with the partition and *)
(* the single Hamiltonian cycle in place.                                *)
C17_FlipPrecondition ==
    FlipCalled
    => IF FlipValid
       THEN /\ status = "ok"
            /\ \A v \in VIdx : vertices[v].parent \in PIdx /\ HamiltonianFrom(v)
            /\ \A ip \in PIdx :
                 parents[ip].size = Cardinality({v \in VIdx : vertices[v].parent = ip})
       ELSE status = "panicked"

(* Everything of the tour but the visited flags. *)
TourShape ==
    [vs  |-> [v \in VIdx |-> [vertices[v] EXCEPT !.visited = FALSE]],
     ps  |-> parents,
     obs |-> Observed]

(* C18: reset() clears the visited flag of every vertex, visited_at(i,   *)
(* flag) writes the flag of vertex i only, both leave successors,        *)
(* predecessors, segment membership, sequence ids, reversed flags and    *)
(* total_distance as they were, and apply leaves every vertex unvisited. *)
C18_VisitedFrame ==
    [][/\ (hist' # hist /\ lastOp' = "reset")
          => /\ \A v \in VIdx : ~vertices'[v].visited
             /\ status' = "ok"
             /\ TourShape' = TourShape
       /\ (hist' # hist /\ lastOp' = "visited_at" /\ ret'.args[1] \in VIdx)
          => /\ vertices'[ret'.args[1]].visited = ret'.value
             /\ \A v \in VIdx \ {ret'.args[1]} :
                   vertices'[v].visited = vertices[v].visited
             /\ status' = "ok"
             /\ TourShape' = TourShape
       /\ (hist' # hist /\ lastOp' = "apply" /\ status' = "ok")
          => \A v \in VIdx : ~vertices'[v].visited]_vars

C18_Witness ==
    /\ Ok
    /\ hist = <<"apply", "reverse", "visited_at">>
    /\ v_len = 3
    /\ \E ip \in PIdx : parents[ip].reverse
    /\ vertices[1].visited /\ ~vertices[0].visited /\ ~vertices[2].visited

(* ---- spanning trees of the graph held by the builder ---- *)

MstNodes == 0 .. (mst.n - 1)

RECURSIVE Ancestor(_, _, _)
Ancestor(par, v, k) ==
    IF k = 0 \/ v = 0 \/ v \notin DOMAIN par THEN v ELSE Ancestor(par, par[v], k - 1)

(* par gives every non-root node a neighbour as parent and every node   *)
(* climbs to the root 0                                                  *)
IsSpanningTree(par) ==
    \A v \in MstNodes \ {0} :
        /\ par[v] \in MstNodes
        /\ cost(mst.costs, v, par[v]) # 0
        /\ Ancestor(par, v, mst.n) = 0

RECURSIVE TreeWeight(_, _)
TreeWeight(par, v) ==
    IF v >= mst.n THEN 0 ELSE cost(mst.costs, v, par[v]) + TreeWeight(par, v + 1)

SpanningTrees == {par \in [MstNodes \ {0} -> MstNodes] : IsSpanningTree(par)}

(* least weight of an edge from the tree T to the outside node u, None  *)
(* if there is no such edge                                              *)
Crossing(T, u) ==
    LET ws == {cost(mst.costs, t, u) : t \in T} \ {0}
    IN IF ws = {} THEN None ELSE CHOOSE w \in ws : \A x \in ws : w <= x

(* C19: on a connected weighted graph build_mst gives root 0 no parent   *)
(* and every other node one parent, the parent links are a spanning tree *)
(* rooted at 0 of minimum total weight, and among frontier candidates of *)
(* equal weight the lowest-indexed node enters the tree first.           *)
C19_MstBuilder ==
    MstDone =>
        /\ mst.parent[0] = None
        /\ IsSpanningTree(mst.parent)
        /\ \A par \in SpanningTrees : TreeWeight(mst.parent, 1) <= TreeWeight(par, 1)
        /\ \A k \in 2 .. mst.n :
             LET T == {mst.order[j] : j \in 1 .. (k - 1)}
                 v == mst.order[k]
             IN /\ Crossing(T, v) # None
                /\ \A u \in MstNodes \ T :
                     Crossing(T, u) # None =>
                        \/ Crossing(T, v) < Crossing(T, u)
                        \/ (Crossing(T, v) = Crossing(T, u) /\ v <= u)

C19_Witness ==
    /\ MstDone
    /\ mst.n = WikiN
    /\ mst.costs = WikiGraph
    /\ mst.parent = WikiExpected
    /\ mst.order = <<0, 1, 4, 2, 3, 5>>

(* C20: after apply(order) on n nodes with capacity g there are n \div g *)
(* + 1 segments; segment k has size min(g, n - k*g), holds               *)
(* order[k*g .. k*g+size) with sequence ids 0 .. size-1 in that order,   *)
(* has first = order[k*g] and last = order[k*g+size-1] when non-empty,   *)
(* and next(segment k) = segment (k+1) mod p with prev its inverse.      *)
C20_SegmentLayout ==
    (lastOp = "apply" /\ Ok) =>
        /\ \A k \in PIdx : p_len = (v_len \div parents[k].max_size) + 1
        /\ \A k \in PIdx :
             LET g    == parents[k].max_size
                 size == Min(g, v_len - k * g)
             IN /\ parents[k].size = size
                /\ \A i \in 0 .. (size - 1) :
                     /\ vertices[At(lastOrder, k * g + i)].parent = k
                     /\ vertices[At(lastOrder, k * g + i)].seq_id = i
                /\ size > 0 =>
                     /\ parents[k].first = At(lastOrder, k * g)
                     /\ parents[k].last = At(lastOrder, k * g + size - 1)
                /\ parents[k].next = (k + 1) % p_len
                /\ parents[k].prev = (k + p_len - 1) % p_len
                /\ parents[parents[k].next].prev = k

C20_Witness ==
    /\ Ok
    /\ hist = <<"apply", "reverse", "apply">>
    /\ v_len = 3 /\ p_len = 2
    /\ lastOrder = <<1, 2, 0>>
    /\ parents[0].size = 2 /\ parents[1].size = 1
    /\ parents[0].first = 1 /\ parents[0].last = 2 /\ parents[1].first = 0
    /\ vertices[2].seq_id = 1 /\ vertices[0].seq_id = 0

SegOf(v) == vertices[v].parent

(* C21: when exactly two of the distinct vertices a, b, c share a        *)
(* segment and the third lies in another, between(a, b, c) agrees with   *)
(* the walk (successor from a reaches b before c), in every state        *)
(* reached by applies and segment reversals.                             *)
C21_TwoInOneSegment ==
    (AppliedOnce /\ Ok) =>
        \A a, b, c \in VIdx :
            (/\ Distinct3(a, b, c)
             /\ Cardinality({SegOf(a), SegOf(b), SegOf(c)}) = 2)
            => between(a, b, c) = {ReachesBefore(a, b, c)}

(* C22: when a, b, c lie in three pairwise different segments,           *)
(* between(a, b, c) is the cyclic betweenness of the three segment ids   *)
(* and agrees with the walk, in every state reached by applies and       *)
(* segment reversals.                                                    *)
C22_ThreeSegments ==
    (AppliedOnce /\ Ok) =>
        \A a, b, c \in VIdx :
            Cardinality({SegOf(a), SegOf(b), SegOf(c)}) = 3
            => /\ between(a, b, c) =
                    {tour_between(parents[SegOf(a)].id, parents[SegOf(b)].id,
                                  parents[SegOf(c)].id)}
               /\ between(a, b, c) = {ReachesBefore(a, b, c)}

(* ---- one segment reversal, seen from outside ---- *)

(* the step is parents[ip].borrow_mut().reverse(): the flag of ip is     *)
(* toggled, or the call panicked on a segment that is its own neighbour  *)
ReverseStep(ip) ==
    /\ hist' = Append(hist, "reverse")
    /\ IF status' = "ok"
       THEN parents'[ip].reverse # parents[ip].reverse
       ELSE parents[ip].prev = ip \/ parents[ip].next = ip

Members(ip) == {v \in VIdx : vertices[v].parent = ip}

(* logical first and last vertex of the run of segment ip *)
RunHead(ip) == IF parents[ip].reverse THEN parents[ip].last ELSE parents[ip].first
RunTail(ip) == IF parents[ip].reverse THEN parents[ip].first ELSE parents[ip].last

(* a valid tour: one cycle through all vertices, predecessor the inverse *)
(* of successor, and every non-empty segment a contiguous run from its   *)
(* head to its tail                                                      *)
ValidTour ==
    /\ AppliedOnce /\ Ok
    /\ IsCycle(Observed.succ)
    /\ Observed.pred = Mirror(Observed.succ)
    /\ \A ip \in PIdx :
         /\ parents[ip].size = Cardinality(Members(ip))
         /\ parents[ip].size > 0 =>
              /\ RunHead(ip) \in Members(ip)
              /\ {MapIter(Observed.succ, RunHead(ip), k) :
                     k \in 0 .. (parents[ip].size - 1)} = Members(ip)
              /\ MapIter(Observed.succ, RunHead(ip), parents[ip].size - 1) = RunTail(ip)

(* the successor map of the old tour with the run of segment ip walked   *)
(* backwards                                                             *)
ReverseExpected(ip) ==
    LET f  == Observed.succ
        b  == Observed.pred
        x1 == RunHead(ip)
        xk == RunTail(ip)
    IN IF Members(ip) = VIdx THEN b
       ELSE [v \in VIdx |->
               IF v = x1 THEN f[xk]
               ELSE IF v \in Members(ip) THEN b[v]
               ELSE IF v = b[x1] THEN xk
               ELSE f[v]]

(* C23: on a valid tour, reverse() on a segment with the logical run     *)
(* x1 .. xk completes and leaves the old cyclic order with that run      *)
(* replaced by xk .. x1, whatever the reversed flags of the segment and  *)
(* its neighbours; a one-vertex segment leaves the order unchanged.      *)
C23_ReverseEffect ==
    [][\A ip \in PIdx :
          (ReverseStep(ip) /\ ValidTour /\ parents[ip].size > 0)
          => /\ status' = "ok"
             /\ Observed'.succ = ReverseExpected(ip)
             /\ Observed'.pred = Mirror(ReverseExpected(ip))
             /\ parents[ip].size = 1 => Observed'.succ = Observed.succ]_vars

(* one apply followed by segment reversals only *)
ApplyThenReversals ==
    /\ hist # <<>>
    /\ hist[1] = "apply"
    /\ \A i \in 2 .. Len(hist) : hist[i] = "reverse"

(* `order` with the run of every flagged segment reversed in place *)
ParityOrder ==
    [i \in 1 .. v_len |->
        LET k    == (i - 1) \div parents[0].max_size
            beg  == k * parents[0].max_size
            size == Min(parents[0].max_size, v_len - beg)
        IN IF parents[k].reverse
           THEN At(lastOrder, beg + (size - 1) - ((i - 1) - beg))
           ELSE At(lastOrder, i - 1)]

(* C24: after apply(order) and any sequence of segment reversals the     *)
(* tour reads as `order` with exactly the runs of the segments reversed  *)
(* an odd number of times (those whose flag is set) reversed in place;   *)
(* so reversing a segment twice restores the order and reversals of      *)
(* different segments commute.                                           *)
C24_ReversalParity ==
    (ApplyThenReversals /\ Ok) => ReadsAs(ParityOrder)

(* C25: in every reachable state, for every non-empty segment S the      *)
(* vertex logically before S's run belongs to S's previous segment and   *)
(* the vertex logically after S's run belongs to S's next segment, also  *)
(* when the node count is a multiple of the capacity and the last        *)
(* segment is empty.                                                     *)
C25_BoundaryNeighbours ==
    (AppliedOnce /\ Ok) =>
        \A ip \in PIdx :
            parents[ip].size > 0 =>
                /\ prev(RunHead(ip)) \in Members(parents[ip].prev)
                /\ next(RunTail(ip)) \in Members(parents[ip].next)

(* C26: in every state reached after an apply of a permutation, segment  *)
(* reversals included, predecessor(successor(v)) = v and                 *)
(* successor(predecessor(v)) = v for every vertex v.                     *)
C26_MutualInverses ==
    (AppliedOnce /\ Ok) =>
        \A v \in VIdx :
            /\ next(v) \in VIdx /\ prev(next(v)) = v
            /\ prev(v) \in VIdx /\ next(prev(v)) = v

(* the stored link fields that differ between the two states of a step *)
ChangedLinks ==
    {<<v, "prev">> : v \in {u \in VIdx : vertices'[u].prev # vertices[u].prev}}
    \cup {<<v, "next">> : v \in {u \in VIdx : vertices'[u].next # vertices[u].next}}

(* how many of the four places around the run of segment ip the vertex  *)
(* v takes: first, last, the vertex before the run, the vertex after it *)
Roles(ip, v) ==
    (IF v = parents[ip].first THEN 1 ELSE 0)
    + (IF v = parents[ip].last THEN 1 ELSE 0)
    + (IF RunHead(ip) # None /\ v = prev(RunHead(ip)) THEN 1 ELSE 0)
    + (IF RunTail(ip) # None /\ v = next(RunTail(ip)) THEN 1 ELSE 0)

(* C27: reverse() on segment S changes only S's reversed flag and at     *)
(* most four stored links, one for each boundary vertex of S and for     *)
(* each neighbouring vertex of the run; sequence ids, segment            *)
(* membership, sizes, first, last, the outer-list links, the other       *)
(* flags, the visited flags and the cached total distance stay as they   *)
(* were.                                                                 *)
C27_ReverseFrame ==
    [][\A ip \in PIdx :
          ReverseStep(ip)
          => /\ \A v \in VIdx :
                  /\ vertices'[v].seq_id = vertices[v].seq_id
                  /\ vertices'[v].parent = vertices[v].parent
                  /\ vertices'[v].visited = vertices[v].visited
             /\ parents' = IF status' = "ok"
                           THEN [parents EXCEPT ![ip].reverse = ~parents[ip].reverse]
                           ELSE parents
             /\ total_dist' = total_dist
             /\ Cardinality(ChangedLinks) <= 4
             /\ \A v \in VIdx :
                  Cardinality({c \in ChangedLinks : c[1] = v}) <= Roles(ip, v)]_vars

C27_Witness ==
    /\ Ok
    /\ hist = <<"apply", "visited_at", "reverse">>
    /\ v_len = 4 /\ p_len = 3
    /\ lastOrder = <<0, 1, 2, 3>>
    /\ ~parents[0].reverse /\ parents[1].reverse
    /\ vertices[2].visited /\ ~vertices[3].visited
    /\ vertices[1].next = 3 /\ vertices[3].next = 1
    /\ vertices[2].prev = 0 /\ vertices[0].prev = 2
    /\ vertices[2].next = 3 /\ vertices[3].prev = 2
    /\ vertices[0].next = 1 /\ vertices[1].prev = 0

(* C28: on a tour with a single segment (n below the capacity), the      *)
(* segment being its own previous and next segment, reverse() completes  *)
(* without error and leaves one Hamiltonian cycle, the old cycle walked  *)
(* in the opposite direction.                                            *)
C28_OnlySegmentReversal ==
    [][\A ip \in PIdx :
          (ReverseStep(ip) /\ p_len = 1 /\ ValidTour)
          => /\ status' = "ok"
             /\ IsCycle(Observed'.succ)
             /\ Observed'.succ = Observed.pred
             /\ Observed'.pred = Observed.succ]_vars

=============================================================================
